---- MODULE Spec2Model ----
(***************************************************************************)
(* camply: the Recreation.gov search object                                *)
(* (src/camply/search/search_recreationdotgov.py) and its equipment        *)
(* vocabulary (src/camply/config/search_config.py).                        *)
(*                                                                         *)
(* Python strings are sequences of one-character strings, so that          *)
(* str.lower() and str.zfill() are computed character by character.        *)
(* Optional values are tagged records: None, Num(n), Str(s), List(l).      *)
(***************************************************************************)
EXTENDS Integers, Sequences, FiniteSets, TLC

None == [kind |-> "None"]
Num(n) == [kind |-> "num", value |-> n]
Str(s) == [kind |-> "str", chars |-> s]
List(l) == [kind |-> "list", items |-> l]

Range(s) == {s[i] : i \in DOMAIN s}
In(x, list) == \E i \in DOMAIN list : list[i] = x

(***************************************************************************)
(* Bounds of the model                                                     *)
(***************************************************************************)
MaxRequest == 2
MaxRows == 2
MaxFacilities == 3
MaxMonths == 2
MaxVersions == 2
MaxResponse == 3

(***************************************************************************)
(* str.lower(), str(int), str.zfill()                                      *)
(***************************************************************************)
UpperCase == <<"A", "B", "C", "D", "E", "F", "G", "H", "I", "J", "K", "L", "M",
               "N", "O", "P", "Q", "R", "S", "T", "U", "V", "W", "X", "Y", "Z">>
LowerCase == <<"a", "b", "c", "d", "e", "f", "g", "h", "i", "j", "k", "l", "m",
               "n", "o", "p", "q", "r", "s", "t", "u", "v", "w", "x", "y", "z">>
Digits == <<"0", "1", "2", "3", "4", "5", "6", "7", "8", "9">>

LowerChar(c) ==
    IF \E i \in DOMAIN UpperCase : UpperCase[i] = c
    THEN LowerCase[CHOOSE i \in DOMAIN UpperCase : UpperCase[i] = c]
    ELSE c

lower(s) == [i \in DOMAIN s |-> LowerChar(s[i])]

\* str(n) for 0 <= n < 100
str(n) == IF n < 10 THEN <<Digits[n + 1]>>
          ELSE <<Digits[(n \div 10) + 1], Digits[(n % 10) + 1]>>

RECURSIVE zfill(_, _)
zfill(s, width) == IF Len(s) >= width THEN s ELSE zfill(<<"0">> \o s, width)

(***************************************************************************)
(* search_config.py: EquipmentOptions, EquipmentConfig                     *)
(***************************************************************************)
tent == <<"t", "e", "n", "t">>
rv == <<"r", "v">>
trailer == <<"t", "r", "a", "i", "l", "e", "r">>
vehicle == <<"v", "e", "h", "i", "c", "l", "e">>
other == <<"o", "t", "h", "e", "r">>

\* a plausible slip: every member of the enumeration is accepted
all_accepted_equipment_all_members == <<tent, rv, trailer, vehicle, other>>

all_accepted_equipment == <<tent, rv, trailer, vehicle>>

\* the OrderedDict, in insertion order ("backtick" stands for the grave-accent
\* character that ends the third tent description)
EQUIPMENT_MAPPING == <<
    [key |-> tent, values |-> <<
        <<"T", "e", "n", "t">>,
        <<"L", "a", "r", "g", "e", " ", "T", "e", "n", "t", " ", "O", "v", "e", "r", " ", "9", "X", "1", "2">>,
        <<"L", "a", "r", "g", "e", " ", "T", "e", "n", "t", " ", "O", "v", "e", "r", " ", "9", "X", "1", "2", "backtick">>,
        <<"S", "m", "a", "l", "l", " ", "T", "e", "n", "t">> >>],
    [key |-> rv, values |-> <<
        <<"R", "V">>,
        <<"P", "o", "p", " ", "u", "p">>,
        <<"C", "a", "r", "a", "v", "a", "n", "/", "C", "a", "m", "p", "e", "r", " ", "V", "a", "n">>,
        <<"R", "V", "/", "M", "o", "t", "o", "r", "h", "o", "m", "e">>,
        <<"F", "i", "f", "t", "h", " ", "W", "h", "e", "e", "l">> >>],
    [key |-> trailer, values |-> <<
        <<"T", "r", "a", "i", "l", "e", "r">> >>],
    [key |-> vehicle, values |-> <<
        <<"P", "i", "c", "k", "u", "p", " ", "C", "a", "m", "p", "e", "r">>,
        <<"V", "e", "h", "i", "c", "l", "e">>,
        <<"C", "a", "r">> >>],
    [key |-> other, values |-> <<
        <<"H", "a", "m", "m", "o", "c", "k">>,
        <<"H", "o", "r", "s", "e">>,
        <<"B", "o", "a", "t">>,
        <<>> >>] >>

\* the dict built by the two nested loops: a later key overwrites an earlier one
EQUIPMENT_REVERSE_MAPPING ==
    LET dom == UNION {Range(EQUIPMENT_MAPPING[k].values) : k \in DOMAIN EQUIPMENT_MAPPING}
        last(v) == CHOOSE k \in DOMAIN EQUIPMENT_MAPPING :
                      /\ In(v, EQUIPMENT_MAPPING[k].values)
                      /\ \A j \in DOMAIN EQUIPMENT_MAPPING :
                            j > k => ~In(v, EQUIPMENT_MAPPING[j].values)
    IN [v \in dom |-> EQUIPMENT_MAPPING[last(v)].key]

\* a plausible slip: range(0, 25) for the hours
TIMESTAMP_EQUIPMENT_25_hours ==
    [i \in 1..(25 * 60) |-> zfill(str((i - 1) \div 60), 2) \o zfill(str((i - 1) % 60), 2)]

\* hour in range(0, 24), minute in range(0, 60), in loop order
TIMESTAMP_EQUIPMENT ==
    [i \in 1..(24 * 60) |-> zfill(str((i - 1) \div 60), 2) \o zfill(str((i - 1) % 60), 2)]

(***************************************************************************)
(* The search classes and their accepted_equipment class attribute         *)
(***************************************************************************)
SearchClasses == {"SearchRecreationDotGov",
                  "SearchRecreationDotGovDailyTicket",
                  "SearchRecreationDotGovDailyTimedEntry",
                  "SearchRecreationDotGovTicket",
                  "SearchRecreationDotGovTimedEntry"}

accepted_equipment(class) ==
    IF class \in {"SearchRecreationDotGovDailyTicket",
                  "SearchRecreationDotGovDailyTimedEntry"}
    THEN TIMESTAMP_EQUIPMENT
    ELSE all_accepted_equipment

(***************************************************************************)
(* _get_searchable_equipment: an entry is dropped (with a warning) by the  *)
(* first or the second test, and appended otherwise.                       *)
(***************************************************************************)
EquipmentDropped(class, equipment_name) ==
    \/ /\ accepted_equipment(class) = all_accepted_equipment
       /\ ~In(lower(equipment_name), accepted_equipment(class))
    \/ /\ accepted_equipment(class) = TIMESTAMP_EQUIPMENT
       /\ ~In(equipment_name, TIMESTAMP_EQUIPMENT)

get_searchable_equipment(class, equipment) ==
    IF equipment.kind = "list"
    THEN List(SelectSeq(equipment.items,
                        LAMBDA pair : ~EquipmentDropped(class, pair.name)))
    ELSE None

(***************************************************************************)
(* filter_campsites_to_equipment.  A campsite row is                       *)
(* [campsite_id, permitted_equipment]; a permitted-equipment entry is      *)
(* [equipment_name, max_length], either of which may be missing (NaN).     *)
(***************************************************************************)
Entry(name, length) == [equipment_name |-> name, max_length |-> length]

\* DataFrame.explode / apply(pd.Series) / concat: one virtual entry per
\* permitted-equipment item, in row order; an empty list gives one NaN entry
RECURSIVE explode(_)
explode(campsites) ==
    IF campsites = <<>> THEN <<>>
    ELSE LET row == Head(campsites)
             pe == row.permitted_equipment
             own == IF pe = <<>>
                    THEN <<[campsite_id |-> row.campsite_id,
                            equipment_name |-> None, max_length |-> None]>>
                    ELSE [i \in 1..Len(pe) |->
                            [campsite_id |-> row.campsite_id,
                             equipment_name |-> pe[i].equipment_name,
                             max_length |-> pe[i].max_length]]
         IN own \o explode(Tail(campsites))

fillna(v) == IF v = None THEN Str(<<>>) ELSE v

\* EQUIPMENT_REVERSE_MAPPING[x] raises KeyError for a key the dict lacks
ReverseMappingKeyError(class, joined_data) ==
    /\ accepted_equipment(class) = all_accepted_equipment
    /\ \E i \in DOMAIN joined_data :
          fillna(joined_data[i].equipment_name).chars \notin DOMAIN EQUIPMENT_REVERSE_MAPPING

equipment_name_normalized(class, entry) ==
    IF accepted_equipment(class) = all_accepted_equipment
    THEN Str(EQUIPMENT_REVERSE_MAPPING[fillna(entry.equipment_name).chars])
    ELSE entry.equipment_name

\* matching_data["max_length"] >= float(equipment_length); NaN >= x is False
LengthMatches(max_length, equipment_length) ==
    \/ equipment_length = None
    \/ /\ max_length # None
       /\ max_length.value >= equipment_length.value

\* the campsite ids collected by the loop over self.equipment
matching_ids(class, equipment, joined_data) ==
    LET equipment_types == [i \in DOMAIN equipment |-> Str(lower(equipment[i].name))]
        normalized(i) == equipment_name_normalized(class, joined_data[i])
    IN {joined_data[i].campsite_id : i \in
          {i \in DOMAIN joined_data :
              /\ In(normalized(i), equipment_types)
              /\ \E k \in DOMAIN equipment :
                    /\ normalized(i) = Str(lower(equipment[k].name))
                    /\ LengthMatches(joined_data[i].max_length, equipment[k].length)}}

\* a plausible slip: the test for an empty validated list left out
NoEquipmentFilter_without_empty(equipment, campsites) ==
    \/ equipment = None
    \/ Len(campsites) = 0

\* self.equipment is None or len(self.equipment) == 0 or len(campsites) == 0
NoEquipmentFilter(equipment, campsites) ==
    \/ equipment = None
    \/ Len(equipment.items) = 0
    \/ Len(campsites) = 0

filter_campsites_to_equipment(class, equipment, campsites) ==
    IF NoEquipmentFilter(equipment, campsites)
    THEN [status |-> "ok", rows |-> campsites]
    ELSE LET joined_data == explode(campsites)
         IN IF ReverseMappingKeyError(class, joined_data)
            THEN [status |-> "KeyError", rows |-> <<>>]
            ELSE [status |-> "ok",
                  rows |-> SelectSeq(campsites, LAMBDA row :
                      row.campsite_id \in matching_ids(class, equipment.items, joined_data))]

(***************************************************************************)
(* State                                                                   *)
(***************************************************************************)
VARIABLES
    \* equipment handling of one search object
    cls,                \* the class of the object
    equipment_arg,      \* the equipment argument of __init__
    equipment,          \* self.equipment
    epc,                \* "new", "constructed", "filtered"
    campsites_df,       \* the argument of filter_campsites_to_equipment
    filtered,           \* what filter_campsites_to_equipment returned or raised
    \* search target and search runs of one search object
    pc,                 \* "new", "failed", "idle", "metadata", "loop", "compile"
    campsites,          \* self.campsites
    campground_object,  \* self._campground_object
    recreation_area_id, \* self._recreation_area_id
    campgrounds,        \* self.campgrounds: the resolved facility ids
    search_months,      \* len(self.search_months)
    campsite_metadata,  \* self.campsite_metadata: None or the table fetched
    lookups,            \* the facility lookups made on self.campsite_finder
    index,              \* position of the outer loop of get_all_campsites
    month,              \* position of the inner loop of get_all_campsites
    sleeps,             \* calls of sleep in the current invocation
    fetches,            \* calls of get_recdotgov_data in the current invocation
    converted,          \* calls of process_campsite_availability, current invocation
    metadata_calls,     \* calls of get_internal_campsite_metadata, current invocation
    metadata_fetches,   \* calls of get_internal_campsite_metadata that returned, ever
    passed_metadata,    \* the campsite_metadata values passed to row conversions, ever
    outcome,            \* how __init__ / the last get_all_campsites ended
    provider_version,   \* the metadata table the provider would return now
    \* list_campsite_units
    response,           \* what get_internal_campsites returned
    listed              \* what _get_listable_campsites returned or raised

equipVars == <<cls, equipment_arg, equipment, epc, campsites_df, filtered>>
targetVars == <<campsites, campground_object, recreation_area_id, campgrounds,
                search_months, lookups>>
runVars == <<index, month, sleeps, fetches, converted, metadata_calls>>
searchVars == <<pc, targetVars, campsite_metadata, runVars, metadata_fetches,
                passed_metadata, outcome, provider_version>>
listVars == <<response, listed>>

vars == <<equipVars, searchVars, listVars>>

(***************************************************************************)
(* Inputs                                                                  *)
(***************************************************************************)
SeqsUpTo(S, n) == UNION {[1..k -> S] : k \in 0..n}

Pair(name, length) == [name |-> name, length |-> length]

\* equipment requests offered to the validator
ValidateNames == {<<"t", "e", "n", "t">>, <<"T", "E", "N", "T">>, <<"R", "v">>,
                  <<"O", "t", "h", "e", "r">>, <<"b", "o", "a", "t">>,
                  <<"0", "9", "3", "0">>, <<"2", "3", "5", "9">>,
                  <<"2", "4", "0", "0">>, <<"9", "3">>, <<"0", "9", "6", "0">>}
ValidatePairs == {Pair(n, None) : n \in ValidateNames}
                    \cup {Pair(<<"R", "v">>, Num(20))}

\* equipment requests offered to the filter
FilterPairs == {Pair(<<"R", "V">>, Num(20)), Pair(<<"t", "e", "n", "t">>, None),
                Pair(<<"O", "t", "h", "e", "r">>, None),
                Pair(<<"0", "9", "3", "0">>, None)}

EquipmentArgs(pairs) == {None} \cup {List(l) : l \in SeqsUpTo(pairs, MaxRequest)}

\* consolidated rows: the permitted equipment is a property of the campsite
Tent == <<"T", "e", "n", "t">>
RV == <<"R", "V">>
Yurt == <<"Y", "u", "r", "t">>
T0930 == <<"0", "9", "3", "0">>
Row(id, pe) == [campsite_id |-> id, permitted_equipment |-> pe]
RowUniverse == {
    Row(100, <<Entry(Str(Tent), None), Entry(Str(RV), Num(25))>>),
    Row(101, <<Entry(Str(RV), Num(15))>>),
    Row(102, <<Entry(Str(RV), None)>>),
    Row(103, <<Entry(Str(Yurt), None)>>),
    Row(104, <<>>),
    Row(105, <<Entry(Str(T0930), None)>>),
    Row(106, <<Entry(Str(Tent), None), Entry(Str(Yurt), Num(30))>>),
    Row(107, <<Entry(Str(<<>>), None), Entry(None, Num(20))>>)}

(***************************************************************************)
(* Equipment handling: __init__ lines 112-113, then the filter             *)
(***************************************************************************)
EquipInit(pairs) ==
    /\ cls \in SearchClasses
    /\ equipment_arg \in EquipmentArgs(pairs)
    /\ equipment = List(<<>>)
    /\ epc = "new"
    /\ campsites_df = <<>>
    /\ filtered = [status |-> "none", rows |-> <<>>]

init_equipment ==
    /\ epc = "new"
    /\ equipment' = get_searchable_equipment(cls, equipment_arg)
    /\ epc' = "constructed"
    /\ UNCHANGED <<cls, equipment_arg, campsites_df, filtered, searchVars, listVars>>

FilterCampsites(rows) ==
    /\ epc = "constructed"
    /\ campsites_df' = rows
    /\ filtered' = filter_campsites_to_equipment(cls, equipment, rows)
    /\ epc' = "filtered"
    /\ UNCHANGED <<cls, equipment_arg, equipment, searchVars, listVars>>

(***************************************************************************)
(* Search target: __init__ lines 96-111 and _get_searchable_campgrounds    *)
(***************************************************************************)
FacilityIds == 1..MaxFacilities

\* the id lists a caller passes (make_list has turned a scalar into a list)
IdArgs == {None, List(<<>>), List(<<1>>)}

Given(ids) == ids \notin {List(<<>>), None}

\* the assert of __init__
TargetAsserted(cs, cg, ra) == Given(cs) \/ Given(cg) \/ ra # None

\* a plausible slip: the campground ids tested before the campsite ids
Strategy_campgrounds_first(cs, cg, ra) ==
    IF Given(cg) THEN "campground_id"
    ELSE IF Given(cs) THEN "campsite_id"
    ELSE IF Given(ra) THEN "recreation_area_id"
    ELSE "RuntimeError"

\* the if / elif chain of _get_searchable_campgrounds
Strategy(cs, cg, ra) ==
    IF Given(cs) THEN "campsite_id"
    ELSE IF Given(cg) THEN "campground_id"
    ELSE IF Given(ra) THEN "recreation_area_id"
    ELSE "RuntimeError"

\* the calls made on self.campsite_finder by the chosen _get_campgrounds_by_*
LookupCalls(strategy, cs, cg, ra) ==
    CASE strategy = "campsite_id" ->
            <<[call |-> "find_campgrounds", by |-> "campsite_id", ids |-> cs.items]>>
      [] strategy = "campground_id" ->
            <<[call |-> "find_campgrounds", by |-> "campground_id", ids |-> cg.items]>>
      [] strategy = "recreation_area_id" ->
            [i \in DOMAIN ra.items |->
                [call |-> "find_facilities_per_recreation_area",
                 by |-> "recreation_area_id", ids |-> <<ra.items[i]>>]]
      [] OTHER -> <<>>

\* list(set(searchable_campgrounds)): every facility once, in some order
Deduplicated(found) ==
    {order \in [1..Cardinality(Range(found)) -> Range(found)] : Range(order) = Range(found)}

NoBookkeeping ==
    /\ index = 0 /\ month = 0 /\ sleeps = 0 /\ fetches = 0
    /\ converted = 0 /\ metadata_calls = 0

SearchInit ==
    /\ pc = "new"
    /\ campsites = None /\ campground_object = None /\ recreation_area_id = None
    /\ campgrounds = <<>>
    /\ search_months \in 1..MaxMonths
    /\ lookups = <<>>
    /\ campsite_metadata = None
    /\ NoBookkeeping
    /\ metadata_fetches = 0
    /\ passed_metadata = {}
    /\ outcome = "none"
    /\ provider_version = 1

\* __init__(campsites=cs, campgrounds=cg, recreation_area=ra)
Construct(cs, cg, ra) ==
    /\ pc = "new"
    /\ recreation_area_id' = ra
    /\ campground_object' = cg
    /\ IF ~TargetAsserted(cs, cg, ra)
       THEN /\ pc' = "failed"
            /\ outcome' = "AssertionError"
            /\ UNCHANGED <<campsites, campgrounds, lookups>>
       ELSE /\ campsites' = cs
            /\ IF Strategy(cs, cg, ra) = "RuntimeError"
               THEN /\ pc' = "failed"
                    /\ outcome' = "RuntimeError"
                    /\ UNCHANGED <<campgrounds, lookups>>
               ELSE /\ lookups' = LookupCalls(Strategy(cs, cg, ra), cs, cg, ra)
                    /\ \E found \in SeqsUpTo(FacilityIds, MaxFacilities) :
                          campgrounds' \in Deduplicated(found)
                    /\ pc' = "idle"
                    /\ UNCHANGED outcome
    /\ UNCHANGED <<search_months, campsite_metadata, runVars, metadata_fetches,
                   passed_metadata, provider_version, equipVars, listVars>>

\* the provider's metadata changes while the object lives
ProviderUpdate ==
    /\ pc \notin {"new", "failed"}
    /\ provider_version < MaxVersions
    /\ provider_version' = provider_version + 1
    /\ UNCHANGED <<pc, targetVars, campsite_metadata, runVars, metadata_fetches,
                   passed_metadata, outcome, equipVars, listVars>>

(***************************************************************************)
(* get_all_campsites, one action per external call                         *)
(***************************************************************************)
\* a plausible slip: the test for an empty facility list left out
NoCampgrounds_never == FALSE

\* len(self.campgrounds) == 0
NoCampgrounds == Len(campgrounds) = 0

\* a plausible slip: the cache is not consulted
MetadataMissing_always == TRUE

\* self.campsite_metadata is None
MetadataMissing == campsite_metadata = None

\* a plausible slip: the delay taken once per facility, after its last month
SleepDue_after_last_month ==
    /\ index + 1 < Len(campgrounds)
    /\ month + 1 = search_months

\* index + 1 < len(self.campgrounds), tested in the body of the month loop
SleepDue == index + 1 < Len(campgrounds)

\* lines 239-244
get_all_campsites ==
    /\ pc = "idle"
    /\ index' = 0 /\ month' = 0 /\ sleeps' = 0 /\ fetches' = 0
    /\ converted' = 0 /\ metadata_calls' = 0
    /\ IF NoCampgrounds
       THEN pc' = "idle" /\ outcome' = "SearchError"
       ELSE pc' = "metadata" /\ outcome' = "none"
    /\ UNCHANGED <<targetVars, campsite_metadata, metadata_fetches, passed_metadata,
                   provider_version, equipVars, listVars>>

LoopEntry == IF Len(campgrounds) = 0 THEN "compile" ELSE "loop"

\* lines 245-253: the fetch returns the provider's table, or raises
fetch_metadata ==
    /\ pc = "metadata"
    /\ IF MetadataMissing
       THEN /\ metadata_calls' = metadata_calls + 1
            /\ \/ /\ campsite_metadata' = Num(provider_version)
                  /\ metadata_fetches' = metadata_fetches + 1
                  /\ pc' = LoopEntry
                  /\ UNCHANGED outcome
               \/ /\ pc' = "idle"
                  /\ outcome' = "ProviderError"
                  /\ UNCHANGED <<campsite_metadata, metadata_fetches>>
       ELSE /\ pc' = LoopEntry
            /\ UNCHANGED <<campsite_metadata, metadata_fetches, metadata_calls, outcome>>
    /\ UNCHANGED <<targetVars, index, month, sleeps, fetches, converted,
                   passed_metadata, provider_version, equipVars, listVars>>

\* lines 255-286: one pass of the body of the month loop
search_month ==
    /\ pc = "loop"
    /\ fetches' = fetches + 1
    /\ \/ /\ converted' = converted + 1
          /\ passed_metadata' = passed_metadata \cup {campsite_metadata}
          /\ sleeps' = IF SleepDue THEN sleeps + 1 ELSE sleeps
          /\ IF month + 1 < search_months
             THEN month' = month + 1 /\ UNCHANGED <<index, pc>>
             ELSE /\ month' = 0
                  /\ index' = index + 1
                  /\ pc' = IF index + 1 < Len(campgrounds) THEN "loop" ELSE "compile"
          /\ UNCHANGED outcome
       \/ /\ pc' = "idle"
          /\ outcome' = "ProviderError"
          /\ UNCHANGED <<converted, passed_metadata, sleeps, index, month>>
    /\ UNCHANGED <<targetVars, campsite_metadata, metadata_calls, metadata_fetches,
                   provider_version, equipVars, listVars>>

\* lines 287-299: consolidation and the equipment filter, then the return
compile_campsites ==
    /\ pc = "compile"
    /\ pc' = "idle"
    /\ outcome' = "returned"
    /\ UNCHANGED <<targetVars, campsite_metadata, runVars, metadata_fetches,
                   passed_metadata, provider_version, equipVars, listVars>>

(***************************************************************************)
(* list_campsite_units and _get_listable_campsites                         *)
(***************************************************************************)
\* id is campsite_id (entity_id), facility is asset_id (parent_id)
RecDotGovCampsite(id, facility, name) ==
    [type |-> "RecDotGovCampsite", id |-> id, facility |-> facility, name |-> name]
RecDotGovSearchResult(id, facility, name) ==
    [type |-> "RecDotGovSearchResult", id |-> id, facility |-> facility, name |-> name]
ListedCampsite(item) ==
    [id |-> item.id, facility_id |-> item.facility, name |-> item.name]

ResponseItems == {RecDotGovCampsite(1, 7, "A01"), RecDotGovCampsite(2, 7, "A02"),
                  RecDotGovSearchResult(1, 7, "A01"),
                  RecDotGovSearchResult(3, 8, "B03"),
                  [type |-> "dict", id |-> 4, facility |-> 8, name |-> "B04"]}

\* a plausible slip: the elif branch left out
ListableType_campsite_only(items) ==
    IF items[1].type = "RecDotGovCampsite" THEN items[1].type
    ELSE "unsupported"

\* isinstance(campsites[0], ...): the first element alone selects the branch
ListableType(items) ==
    IF items[1].type \in {"RecDotGovCampsite", "RecDotGovSearchResult"}
    THEN items[1].type
    ELSE "unsupported"

\* What the function can return or raise.  The comprehension of the selected
\* branch reads campsite_id / asset_id (or entity_id / parent_id) of every
\* item; on an item of another class the read raises AttributeError, unless
\* that class happens to have an attribute of the same name.
get_listable_campsites(items) ==
    IF items = <<>>
    THEN {[status |-> "IndexError", units |-> <<>>]}
    ELSE IF ListableType(items) = "unsupported"
    THEN {[status |-> "NotImplementedError", units |-> <<>>]}
    ELSE IF \A i \in DOMAIN items : items[i].type = ListableType(items)
    THEN {[status |-> "ok",
           units |-> [i \in DOMAIN items |-> ListedCampsite(items[i])]]}
    ELSE {[status |-> "AttributeError", units |-> <<>>],
          [status |-> "ok",
           units |-> [i \in DOMAIN items |-> ListedCampsite(items[i])]]}

ListInit ==
    /\ response = <<>>
    /\ listed = [status |-> "none", units |-> <<>>]

list_campsite_units(recdotgov_campsites) ==
    /\ response' = recdotgov_campsites
    /\ listed' \in get_listable_campsites(recdotgov_campsites)
    /\ UNCHANGED <<equipVars, searchVars>>

(***************************************************************************)
(* Specifications                                                          *)
(***************************************************************************)
EquipUnused ==
    /\ cls = "SearchRecreationDotGov"
    /\ equipment_arg = None
    /\ equipment = List(<<>>)
    /\ epc = "new"
    /\ campsites_df = <<>>
    /\ filtered = [status |-> "none", rows |-> <<>>]

SearchUnused == SearchInit /\ search_months = 1

\* the search target and the search runs
Init == SearchInit /\ EquipUnused /\ ListInit
Next ==
    \/ \E cs \in IdArgs, cg \in IdArgs, ra \in IdArgs : Construct(cs, cg, ra)
    \/ ProviderUpdate
    \/ get_all_campsites
    \/ fetch_metadata
    \/ search_month
    \/ compile_campsites
Spec == Init /\ [][Next]_vars

\* the validation of the equipment argument
InitValidate == EquipInit(ValidatePairs) /\ SearchUnused /\ ListInit
NextValidate == init_equipment
SpecValidate == InitValidate /\ [][NextValidate]_vars

\* validation, then the equipment filter
InitEquip == EquipInit(FilterPairs) /\ SearchUnused /\ ListInit
NextEquip ==
    \/ init_equipment
    \/ \E rows \in SeqsUpTo(RowUniverse, MaxRows) : FilterCampsites(rows)
SpecEquip == InitEquip /\ [][NextEquip]_vars

\* the listing of campsite units
InitList == ListInit /\ EquipUnused /\ SearchUnused
NextList ==
    \E recdotgov_campsites \in SeqsUpTo(ResponseItems, MaxResponse) :
        list_campsite_units(recdotgov_campsites)
SpecList == InitList /\ [][NextList]_vars

(***************************************************************************)
(* Properties                                                              *)
(***************************************************************************)
DigitValue(c) == (CHOOSE i \in DOMAIN Digits : Digits[i] = c) - 1

\* a zero-padded HHMM string of the 24-hour clock
IsHHMM(s) ==
    /\ Len(s) = 4
    /\ \A i \in 1..4 : s[i] \in Range(Digits)
    /\ 10 * DigitValue(s[1]) + DigitValue(s[2]) <= 23
    /\ 10 * DigitValue(s[3]) + DigitValue(s[4]) <= 59

IsCategoryName(s) == lower(s) \in {tent, rv, trailer, vehicle}

CategoryMode == accepted_equipment(cls) = all_accepted_equipment

\* the category an entry normalizes to, as the specification describes it:
\* the reverse mapping where it is defined (a missing name counts as ""),
\* the empty string for an unmapped description; the raw name in timestamp mode
SpecNormalized(entry) ==
    IF CategoryMode
    THEN IF fillna(entry.equipment_name).chars \in DOMAIN EQUIPMENT_REVERSE_MAPPING
         THEN Str(EQUIPMENT_REVERSE_MAPPING[fillna(entry.equipment_name).chars])
         ELSE Str(<<>>)
    ELSE entry.equipment_name

EntryMatchesPair(entry, pair) ==
    /\ SpecNormalized(entry) = Str(lower(pair.name))
    /\ \/ pair.length = None
       \/ /\ entry.max_length # None
          /\ entry.max_length.value >= pair.length.value

RowMatchesRequest(row) ==
    \E i \in DOMAIN row.permitted_equipment : \E k \in DOMAIN equipment.items :
        EntryMatchesPair(row.permitted_equipment[i], equipment.items[k])

AllUnmapped(row) ==
    /\ row.permitted_equipment # <<>>
    /\ \A i \in DOMAIN row.permitted_equipment :
          /\ row.permitted_equipment[i].equipment_name # None
          /\ row.permitted_equipment[i].equipment_name.chars
                \notin DOMAIN EQUIPMENT_REVERSE_MAPPING

FilterRan ==
    /\ epc = "filtered"
    /\ Len(campsites_df) > 0
    /\ equipment # None
    /\ Len(equipment.items) > 0

\* C3: for non-empty rows and a non-empty validated request the filter returns
\* exactly the rows, in order, that carry an entry matching a requested pair
\* (category equal to the pair's name, max_length >= the pair's length if any).
C3_FilterReturnsMatchingRows ==
    FilterRan =>
        /\ filtered.status = "ok"
        /\ filtered.rows = SelectSeq(campsites_df, RowMatchesRequest)

\* C4: with no effective request (no equipment, an empty list, or a list whose
\* entries all failed validation) the filter returns the rows unchanged.
C4_NoRequestIsIdentity ==
    (/\ epc = "filtered"
     /\ \/ equipment_arg = None
        \/ equipment_arg.items = <<>>
        \/ equipment.items = <<>>)
    => filtered = [status |-> "ok", rows |-> campsites_df]

C4_Witness ==
    /\ epc = "filtered"
    /\ equipment_arg # None
    /\ Len(equipment_arg.items) = 2
    /\ equipment.items = <<>>
    /\ Len(campsites_df) = 2
    /\ \E i \in DOMAIN campsites_df : AllUnmapped(campsites_df[i])
    /\ filtered.rows = campsites_df

\* C5: in category mode the validator returns exactly the pairs whose
\* lower-cased name is tent, rv, trailer or vehicle, in order and unchanged;
\* a pair named "other" in any letter case is never retained.
C5_CategoryValidation ==
    (/\ epc # "new"
     /\ cls = "SearchRecreationDotGov"
     /\ equipment_arg # None)
    => /\ equipment = List(SelectSeq(equipment_arg.items,
                                     LAMBDA pair : IsCategoryName(pair.name)))
       /\ \A i \in DOMAIN equipment.items : lower(equipment.items[i].name) # other

C5_Witness ==
    /\ epc # "new"
    /\ cls = "SearchRecreationDotGov"
    /\ equipment_arg = List(<<Pair(<<"O", "t", "h", "e", "r">>, None),
                              Pair(<<"T", "E", "N", "T">>, None)>>)
    /\ equipment = List(<<Pair(<<"T", "E", "N", "T">>, None)>>)

TicketClasses == {"SearchRecreationDotGovTicket",
                  "SearchRecreationDotGovTimedEntry",
                  "SearchRecreationDotGovDailyTicket",
                  "SearchRecreationDotGovDailyTimedEntry"}
DailyClasses == {"SearchRecreationDotGovDailyTicket",
                 "SearchRecreationDotGovDailyTimedEntry"}

\* C6 as stated: every ticket / timed-entry class retains an entry if and only
\* if its name is a valid zero-padded HHMM string.
C6_AllTicketClassesTimestampMode ==
    (/\ epc # "new"
     /\ cls \in TicketClasses
     /\ equipment_arg # None)
    => equipment = List(SelectSeq(equipment_arg.items,
                                  LAMBDA pair : IsHHMM(pair.name)))

\* C6 amended: the two daily classes retain an entry if and only if its name
\* is a valid zero-padded HHMM string; SearchRecreationDotGovTicket and
\* SearchRecreationDotGovTimedEntry validate by category name, as the base
\* class does.
C6_DailyClassesTimestampMode ==
    (/\ epc # "new"
     /\ equipment_arg # None)
    => /\ cls \in DailyClasses =>
            equipment = List(SelectSeq(equipment_arg.items,
                                       LAMBDA pair : IsHHMM(pair.name)))
       /\ cls \in TicketClasses \ DailyClasses =>
            equipment = List(SelectSeq(equipment_arg.items,
                                       LAMBDA pair : IsCategoryName(pair.name)))

C6_Witness ==
    /\ epc # "new"
    /\ cls = "SearchRecreationDotGovDailyTimedEntry"
    /\ equipment_arg = List(<<Pair(<<"2", "4", "0", "0">>, None),
                              Pair(<<"2", "3", "5", "9">>, None)>>)
    /\ equipment = List(<<Pair(<<"2", "3", "5", "9">>, None)>>)

\* C9: in category mode with a non-empty validated request the filter
\* completes without error on rows with unmapped descriptions, and a row
\* whose entries are all unmapped is excluded.
C9_UnmappedMatchesNothing ==
    (FilterRan /\ CategoryMode)
    => /\ filtered.status = "ok"
       /\ \A i \in DOMAIN filtered.rows : ~AllUnmapped(filtered.rows[i])

\* C1 as stated: a completed run over n facilities has slept n - 1 times,
\* whatever the number of search months.
C1_SleepOncePerFacility ==
    outcome = "returned" => sleeps = Len(campgrounds) - 1

\* C1 amended: a completed run has slept once after every (facility, month)
\* fetch of every facility but the last: (n - 1) * len(search_months) times,
\* which is n - 1 for a single month and zero for a single facility.
C1_SleepPerFacilityMonth ==
    outcome = "returned" =>
        /\ fetches = Len(campgrounds) * search_months
        /\ sleeps = (Len(campgrounds) - 1) * search_months

C1_Witness ==
    /\ outcome = "returned"
    /\ Len(campgrounds) = 3
    /\ search_months = 2
    /\ sleeps = 4

\* C2: the lookup strategy is that of the first non-empty input in the order
\* campsite ids, campground ids, recreation-area ids, and only that one is
\* invoked; with all three empty construction fails without any lookup.
C2_ResolutionPrecedence ==
    pc # "new" =>
        /\ Given(campsites) =>
              /\ pc # "failed"
              /\ lookups # <<>>
              /\ \A i \in DOMAIN lookups : lookups[i].by = "campsite_id"
        /\ (~Given(campsites) /\ Given(campground_object)) =>
              /\ pc # "failed"
              /\ lookups # <<>>
              /\ \A i \in DOMAIN lookups : lookups[i].by = "campground_id"
        /\ (~Given(campsites) /\ ~Given(campground_object)
                /\ ~Given(recreation_area_id)) =>
              /\ pc = "failed"
              /\ lookups = <<>>

C2_Witness ==
    /\ pc = "idle"
    /\ Given(campsites) /\ Given(campground_object) /\ Given(recreation_area_id)
    /\ Len(lookups) = 1
    /\ lookups[1].by = "campsite_id"

\* C7: a search over an empty facility list ends in SearchError with no
\* metadata fetch, availability fetch, row conversion or delay, and the
\* metadata cache stays unpopulated.
C7_EmptyFacilitiesFailFirst ==
    (pc \notin {"new", "failed"} /\ Len(campgrounds) = 0) =>
        /\ pc = "idle"
        /\ outcome \in {"none", "SearchError"}
        /\ metadata_calls = 0 /\ fetches = 0 /\ converted = 0 /\ sleeps = 0
        /\ metadata_fetches = 0
        /\ passed_metadata = {}
        /\ campsite_metadata = None

C7_Witness ==
    /\ pc = "idle"
    /\ Len(campgrounds) = 0
    /\ outcome = "SearchError"

AllOfType(items, type) == \A i \in DOMAIN items : items[i].type = type
Supported(items) ==
    AllOfType(items, "RecDotGovCampsite") \/ AllOfType(items, "RecDotGovSearchResult")
OneUnitPerElement ==
    /\ listed.status = "ok"
    /\ listed.units = [i \in DOMAIN response |->
                          [id |-> response[i].id,
                           facility_id |-> response[i].facility,
                           name |-> response[i].name]]

\* C8 as stated: every non-empty response that is not entirely of one
\* supported shape raises NotImplementedError; a response entirely of one
\* supported shape gives one unit per element, in order, duplicates kept.
C8_AnyOtherShapeUnsupported ==
    (listed.status # "none" /\ response # <<>>) =>
        /\ ~Supported(response) =>
              listed = [status |-> "NotImplementedError", units |-> <<>>]
        /\ Supported(response) => OneUnitPerElement

\* C8 amended: a non-empty response whose first element is of neither
\* supported shape raises NotImplementedError; a response entirely of one
\* supported shape gives one unit per element, in order, duplicates kept.
C8_FirstElementSelects ==
    (listed.status # "none" /\ response # <<>>) =>
        /\ response[1].type \notin {"RecDotGovCampsite", "RecDotGovSearchResult"} =>
              listed = [status |-> "NotImplementedError", units |-> <<>>]
        /\ Supported(response) => OneUnitPerElement

C8_Witness ==
    /\ Len(response) = 3
    /\ AllOfType(response, "RecDotGovSearchResult")
    /\ response[1] = response[3]
    /\ listed.status = "ok"
    /\ Len(listed.units) = 3

\* C10: the metadata fetch returns at most once in the life of the object,
\* and every row conversion is passed the one cached table.
C10_MetadataFetchedOnce ==
    /\ metadata_fetches <= 1
    /\ metadata_fetches = 0 <=> campsite_metadata = None
    /\ passed_metadata \subseteq {campsite_metadata}
    /\ campsite_metadata = None => passed_metadata = {}

\* a later search that made no metadata call, while the provider's table has
\* changed since the one fetch
C10_Witness ==
    /\ metadata_fetches = 1
    /\ metadata_calls = 0
    /\ converted >= 1
    /\ campsite_metadata # None
    /\ campsite_metadata.value < provider_version
    /\ passed_metadata = {campsite_metadata}

NamelessEntry(entry) == entry.equipment_name \in {None, Str(<<>>)}

CarriesOtherEntry(row) ==
    \E i \in DOMAIN row.permitted_equipment :
        SpecNormalized(row.permitted_equipment[i]) = Str(other)

OnlyOtherRequested ==
    /\ equipment_arg # None
    /\ equipment_arg.items # <<>>
    /\ \A k \in DOMAIN equipment_arg.items :
          /\ lower(equipment_arg.items[k].name) = other
          /\ equipment_arg.items[k].length = None

\* C11 as stated: in category mode an entry with a missing or empty raw name
\* normalizes to "other", and a request for ("other", None) returns exactly
\* the rows that carry an "other"-category entry.
C11_OtherRequestFilters ==
    (epc = "filtered" /\ CategoryMode /\ OnlyOtherRequested /\ campsites_df # <<>>) =>
        /\ filtered.status = "ok"
        /\ filtered.rows = SelectSeq(campsites_df, CarriesOtherEntry)

\* C11 amended: in category mode an entry with a missing or empty raw name
\* normalizes to "other"; a request for ("other", None) is dropped by the
\* validation, the validated request is empty, and the filter returns every
\* row unchanged.
C11_OtherRequestDropped ==
    (epc = "filtered" /\ CategoryMode) =>
        /\ \A r \in DOMAIN campsites_df :
              \A i \in DOMAIN campsites_df[r].permitted_equipment :
                 NamelessEntry(campsites_df[r].permitted_equipment[i]) =>
                    equipment_name_normalized(
                        cls, campsites_df[r].permitted_equipment[i]) = Str(other)
        /\ OnlyOtherRequested =>
              /\ equipment = List(<<>>)
              /\ filtered = [status |-> "ok", rows |-> campsites_df]

C11_Witness ==
    /\ epc = "filtered"
    /\ cls = "SearchRecreationDotGov"
    /\ equipment_arg = List(<<Pair(<<"O", "t", "h", "e", "r">>, None)>>)
    /\ equipment = List(<<>>)
    /\ Len(campsites_df) = 2
    /\ campsites_df[1].campsite_id = 107
    /\ campsites_df[2].campsite_id = 100
    /\ filtered.rows = campsites_df

====
